---- MODULE Spec2Model ----
(***************************************************************************)
(* A model of llm_cartographer/utils.py: the file primitives               *)
(* (count_lines_in_file, is_text_file, get_file_info), the sampler         *)
(* (memory_efficient_file_sample) and the thread-pool map                  *)
(* (parallel_process); and of llm_cartographer/config.py: saving and       *)
(* loading a CartographerConfig.                                           *)
(*                                                                         *)
(* A file is a sequence of bytes.  Bytes are tokens: "a" and "b" stand for *)
(* ordinary characters, NL for the newline byte, NUL for the null byte and *)
(* BAD for a byte that is not valid UTF-8 (such as 0xFF).                  *)
(***************************************************************************)
EXTENDS Integers, Sequences, FiniteSets, TLC

VARIABLES
    \* ---- the file under test and how the fixture wrote it
    fileName,     \* the path's final component
    fileBytes,    \* the bytes on disk
    fileAccess,   \* "ok", or the I/O step that fails: see AccessModes
    written,      \* [lines, stripped]: the lines the fixture joined, final newline stripped or not
    \* ---- the file primitives
    ret,          \* the outcome of the last primitive called: [fn, raised, value]
    \* ---- memory_efficient_file_sample, one call of it
    pcSample,     \* "idle" | "scan" (in the backward loop) | "done"
    sample_lines, \* the argument sample_lines
    max_size,     \* the argument max_size
    first_lines,  \* the head lines read forward
    last_lines,   \* the deque of tail lines
    position,     \* the backward scan's read position
    line_count,   \* the backward scan's newline count
    reads,        \* the backward scan's reads so far: [offset, size] of each seek and read
    sampleRet,    \* the string returned
    \* ---- parallel_process, one call of it
    items_list,   \* the items, in input order
    failing,      \* the item values on which process_func raises
    workers_arg,  \* the argument max_workers: Some(n) or NoneValue
    cpu_count,    \* os.cpu_count(): Some(n) or NoneValue
    max_workers,  \* max_workers after the default is applied
    show_progress,
    pcRun,        \* "begin" | "submit" | "collect" | "lock" | "update" | "done"
    nsubmitted,   \* how many items the main thread has submitted
    queue,        \* the executor's work queue: indices of items_list
    threads,      \* the worker threads the executor has started
    idle,         \* the executor's idle semaphore
    future,       \* per index: the future's state and outcome
    invoked,      \* per index: how often process_func was called on the item
    yielded,      \* the indices as_completed has yielded
    results,      \* the list returned
    log,          \* the lines written by logger.error
    completed,    \* the progress counter
    pbar,         \* the progress bar's count
    lock,         \* "free" | "main"
    runRaised,    \* an exception left parallel_process
    \* ---- CartographerConfig: construct, save, load
    config,        \* the config constructed: field -> tagged value
    config_file,   \* the document save wrote: [path, body]
    loaded_config, \* the config load returned
    pcConfig       \* "idle" | "invalid" | "built" | "saved" | "loaded"

fileVars == <<fileName, fileBytes, fileAccess, written>>
primVars == <<ret>>
sampleVars == <<pcSample, sample_lines, max_size, first_lines, last_lines,
                position, line_count, reads, sampleRet>>
runVars == <<items_list, failing, workers_arg, cpu_count, max_workers, show_progress,
             pcRun, nsubmitted, queue, threads, idle, future, invoked, yielded,
             results, log, completed, pbar, lock, runRaised>>
configVars == <<config, config_file, loaded_config, pcConfig>>
vars == <<fileVars, primVars, sampleVars, runVars, configVars>>

----------------------------------------------------------------------------
(* Bytes and sequences *)

NL == "\n"
NUL == "NUL"
BAD == "BAD"

Min(x, y) == IF x <= y THEN x ELSE y

\* s[from..to], 1-based and clipped like a Python slice
Slice(s, from, to) ==
    IF from > Min(to, Len(s)) THEN <<>> ELSE SubSeq(s, from, Min(to, Len(s)))

RECURSIVE Count(_, _)
\* bytes.count(x)
Count(s, x) ==
    IF s = <<>> THEN 0
    ELSE (IF Head(s) = x THEN 1 ELSE 0) + Count(Tail(s), x)

RECURSIVE Concat(_)
\* "".join(parts)
Concat(parts) ==
    IF parts = <<>> THEN <<>> ELSE Head(parts) \o Concat(Tail(parts))

RECURSIVE Terminated(_)
\* "".join(line + "\n" for line in lines)
Terminated(lines) ==
    IF lines = <<>> THEN <<>>
    ELSE Head(lines) \o <<NL>> \o Terminated(Tail(lines))

\* what the fixture writes: the newline-terminated lines, the final newline
\* stripped or not
Render(lines, stripped) ==
    LET text == Terminated(lines)
    IN IF stripped /\ text # <<>> THEN SubSeq(text, 1, Len(text) - 1) ELSE text

\* bytes.decode('utf-8'): fails on an invalid byte
DecodesAsUtf8(bytes) == \A i \in 1..Len(bytes) : bytes[i] # BAD

----------------------------------------------------------------------------
(* I/O failures.  A file is "ok" or one kind of step fails on it:          *)
(*   "missing"     stat and open raise (FileNotFoundError)                 *)
(*   "unreadable"  stat works, open raises (PermissionError)               *)
(*   "stat_error"  open and read work, path.stat() raises OSError          *)
(*   "read_error"  open works, every read raises OSError                   *)
(*   "seek_error"  open and read work, every seek raises OSError           *)
(*   "reopen_error" the first open of a call works, a later one raises     *)

AccessModes ==
    {"ok", "missing", "unreadable", "stat_error", "read_error", "seek_error",
     "reopen_error"}

StatRaises(access) == access \in {"missing", "stat_error"}
OpenRaises(access) == access \in {"missing", "unreadable"}
ReadRaises(access) == access = "read_error"
SeekRaises(access) == access = "seek_error"
ReopenRaises(access) == access = "reopen_error"

\* str(e) of the exception a failing step raises
ErrorOf(access) ==
    CASE access = "missing"    -> "FileNotFoundError"
      [] access = "unreadable" -> "PermissionError"
      [] OTHER                 -> "OSError"

----------------------------------------------------------------------------
(* count_lines_in_file *)

\* the read size of the chunked scan (1024 * 1024 in the source, scaled)
ReadChunk == 2

RECURSIVE Chunks(_, _)
\* iter(lambda: f.read(n), b''): the file cut in reads of n bytes
Chunks(bytes, n) ==
    IF bytes = <<>> THEN <<>>
    ELSE <<Slice(bytes, 1, n)>> \o Chunks(Slice(bytes, n + 1, Len(bytes)), n)

RECURSIVE SumNewlines(_)
\* sum(chunk.count(b'\n') for chunk in ...)
SumNewlines(chunks) ==
    IF chunks = <<>> THEN 0
    ELSE Count(Head(chunks), NL) + SumNewlines(Tail(chunks))

\* a variant that forgets the unterminated last line
LastLineAdjust_Forgotten(bytes, counted) == counted

\* if the last byte is no newline the unterminated last line is counted too
LastLineAdjust(bytes, counted) ==
    IF bytes[Len(bytes)] # NL THEN counted + 1 ELSE counted

\* the inner try: an OSError of stat, seek or read is passed over and the
\* newline count returned as it is
LastByteCheck(bytes, access, counted) ==
    IF StatRaises(access) THEN counted
    ELSE IF Len(bytes) = 0 THEN 0
    ELSE IF SeekRaises(access) THEN counted
    ELSE LastLineAdjust(bytes, counted)

count_lines_in_file(bytes, access) ==
    IF OpenRaises(access) \/ ReadRaises(access)
    THEN 0                                \* the outer except: logged, 0
    ELSE LastByteCheck(bytes, access, SumNewlines(Chunks(bytes, ReadChunk)))

----------------------------------------------------------------------------
(* is_text_file *)

\* the names the model draws a path from
Names ==
    {"notes.txt", "data.json", "binary.bin", "build.kts", "BUILD.KTS", "LICENSE",
     "query.sql"}

NoMime == "None"

\* mimetypes.guess_type(path.name)[0]
guess_type(name) ==
    CASE name = "notes.txt"  -> "text/plain"
      [] name = "data.json"  -> "application/json"
      [] name = "binary.bin" -> "application/octet-stream"
      [] name = "query.sql"  -> "application/sql"
      [] OTHER               -> NoMime

\* path.suffix
suffix(name) ==
    CASE name = "notes.txt"  -> ".txt"
      [] name = "data.json"  -> ".json"
      [] name = "binary.bin" -> ".bin"
      [] name = "build.kts"  -> ".kts"
      [] name = "BUILD.KTS"  -> ".KTS"
      [] name = "query.sql"  -> ".sql"
      [] OTHER               -> ""

\* str.lower() on the suffixes above
lower(s) == IF s = ".KTS" THEN ".kts" ELSE s

text_mime_types ==
    {"application/json", "application/xml", "application/javascript",
     "application/x-python", "application/x-ruby", "application/x-sh"}

\* mime_type.startswith('text/')
StartsWithText(mime) == mime \in {"text/plain"}

text_extensions ==
    {".txt", ".md", ".py", ".js", ".ts", ".html", ".css", ".json", ".xml",
     ".yml", ".yaml", ".ini", ".conf", ".cfg", ".sh", ".bash", ".c", ".cpp",
     ".h", ".hpp", ".java", ".rb", ".pl", ".php", ".rs", ".go", ".swift",
     ".kt", ".kts", ".dart", ".lua", ".ex", ".exs", ".clj", ".scala", ".sql"}

\* the number of bytes sniffed (4096 in the source, scaled)
SniffLen == 2

\* a variant that skips the null-byte test
SniffContent_NoNullTest(bytes, access) ==
    IF OpenRaises(access) \/ ReadRaises(access) THEN FALSE
    ELSE DecodesAsUtf8(Slice(bytes, 1, SniffLen))

\* the last resort: read the first bytes, look for a null byte, try UTF-8
SniffContent(bytes, access) ==
    IF OpenRaises(access) \/ ReadRaises(access)
    THEN FALSE                            \* except Exception: False
    ELSE LET content == Slice(bytes, 1, SniffLen)
         IN IF Count(content, NUL) > 0 THEN FALSE
            ELSE DecodesAsUtf8(content)

\* a variant that consults the extension table before the MIME type
is_text_file_ExtensionFirst(name, bytes, access) ==
    LET mime_type == guess_type(name)
    IN IF lower(suffix(name)) \in text_extensions THEN TRUE
       ELSE IF mime_type # NoMime
       THEN StartsWithText(mime_type) \/ mime_type \in text_mime_types
       ELSE SniffContent(bytes, access)

is_text_file(name, bytes, access) ==
    LET mime_type == guess_type(name)
    IN IF mime_type # NoMime
       THEN StartsWithText(mime_type) \/ mime_type \in text_mime_types
       ELSE IF lower(suffix(name)) \in text_extensions THEN TRUE
       ELSE SniffContent(bytes, access)

----------------------------------------------------------------------------
(* get_file_info *)

\* what a call comes to: a returned value, or an exception leaving the call
Return(v) == [raised |-> FALSE, value |-> v]
Raise(e) == [raised |-> TRUE, value |-> e]

\* path.stat()
stat(bytes, access) ==
    IF StatRaises(access) THEN Raise(ErrorOf(access))
    ELSE Return([st_size |-> Len(bytes), st_mtime |-> "st_mtime"])

\* a variant that counts the lines of every file
LineCountField_Always(is_text, bytes, access) ==
    [line_count |-> count_lines_in_file(bytes, access)]

\* the record's line_count entry, added for a text file only
LineCountField(is_text, bytes, access) ==
    IF is_text THEN [line_count |-> count_lines_in_file(bytes, access)]
    ELSE <<>>

\* the body of the try block
FileInfoBody(name, bytes, access) ==
    LET stats == stat(bytes, access)
    IN IF stats.raised THEN stats
       ELSE LET is_text == is_text_file(name, bytes, access)
                info == [path |-> name, name |-> name, extension |-> suffix(name),
                         size_bytes |-> stats.value.st_size, is_text |-> is_text,
                         last_modified |-> stats.value.st_mtime]
            IN Return(LineCountField(is_text, bytes, access) @@ info)

\* a variant without the except branch
FileInfoExcept_Absent(name, outcome) == outcome

\* except Exception as e: the minimal record
FileInfoExcept(name, outcome) ==
    IF outcome.raised THEN Return([path |-> name, error |-> outcome.value])
    ELSE outcome

get_file_info(name, bytes, access) ==
    FileInfoExcept(name, FileInfoBody(name, bytes, access))

----------------------------------------------------------------------------
(* safe_read_file *)

\* an optional number is None or Some(n)
NoneValue == <<>>
Some(n) == <<n>>
ValueOf(opt) == opt[1]

RECURSIVE Decode(_)
\* decoding as UTF-8 with errors='ignore': invalid bytes are dropped
Decode(bytes) ==
    IF bytes = <<>> THEN <<>>
    ELSE (IF Head(bytes) = BAD THEN <<>> ELSE <<Head(bytes)>>) \o Decode(Tail(bytes))

\* the text of the diagnostic string
ReadErrorText(e) == <<"[Error reading file: ", e, "]">>

\* a variant that reads the whole file whatever the cap
BoundedRead_Whole(bytes, max) == Decode(bytes)

\* f.read(max_size) of a file opened with errors='ignore'
BoundedRead(bytes, max) == Slice(Decode(bytes), 1, max)

\* the branch for a file larger than max_size: no handler around it
ReadLargeFile(bytes, access, max) ==
    IF OpenRaises(access) \/ ReadRaises(access) THEN Raise(ErrorOf(access))
    ELSE Return(BoundedRead(bytes, max))

\* except UnicodeDecodeError: the file is opened and read again, and what
\* this raises is caught by no handler
LossyReread(bytes, access) ==
    IF ReopenRaises(access) THEN Raise(ErrorOf(access))
    ELSE Return(Decode(bytes))

\* the branch that reads the whole file, inside try
ReadWholeFile(bytes, access) ==
    IF OpenRaises(access) \/ ReadRaises(access)
    THEN Return(ReadErrorText(ErrorOf(access)))
    ELSE IF DecodesAsUtf8(bytes) THEN Return(bytes)
    ELSE LossyReread(bytes, access)

\* max is NoneValue or Some(n); path.stat() is called only when it is given
safe_read_file(bytes, access, max) ==
    IF max = NoneValue THEN ReadWholeFile(bytes, access)
    ELSE IF StatRaises(access) THEN Raise(ErrorOf(access))
    ELSE IF Len(bytes) > ValueOf(max) THEN ReadLargeFile(bytes, access, ValueOf(max))
    ELSE ReadWholeFile(bytes, access)

----------------------------------------------------------------------------
(* The file primitives as a state machine: a fixture writes a file, then   *)
(* the primitives are called on it.                                        *)

MaxLines == 3

\* the largest max_size a call of safe_read_file is given
MaxReadSize == 3

\* the lines a fixture writes (none holds a newline)
LineChoices == {<<>>, <<"a">>, <<NUL>>, <<BAD>>, <<"a", "a", NUL>>}

RECURSIVE SeqsUpTo(_, _)
\* the sequences over S of length at most n
SeqsUpTo(S, n) ==
    IF n = 0 THEN {<<>>}
    ELSE LET shorter == SeqsUpTo(S, n - 1)
         IN shorter \cup {Append(s, x) : s \in {t \in shorter : Len(t) = n - 1}, x \in S}

NoCall == [fn |-> "none", raised |-> FALSE, value |-> "none"]

\* no call of parallel_process has begun
RunIdle ==
    /\ items_list = <<>>
    /\ failing = {}
    /\ workers_arg = NoneValue
    /\ cpu_count = NoneValue
    /\ max_workers = 0
    /\ show_progress = FALSE
    /\ pcRun = "idle"
    /\ nsubmitted = 0
    /\ queue = <<>>
    /\ threads = 0
    /\ idle = 0
    /\ future = <<>>
    /\ invoked = <<>>
    /\ yielded = {}
    /\ results = <<>>
    /\ log = <<>>
    /\ completed = 0
    /\ pbar = 0
    /\ lock = "free"
    /\ runRaised = FALSE

\* no config has been constructed
ConfigIdle ==
    /\ config = <<>>
    /\ config_file = <<>>
    /\ loaded_config = <<>>
    /\ pcConfig = "idle"

\* no call of the sampler has begun
SampleIdle ==
    /\ pcSample = "idle"
    /\ sample_lines = 0
    /\ max_size = 0
    /\ first_lines = <<>>
    /\ last_lines = <<>>
    /\ position = 0
    /\ reads = <<>>
    /\ line_count = 0
    /\ sampleRet = <<>>

Init ==
    /\ fileName \in Names
    /\ fileAccess \in AccessModes
    /\ written \in [lines : SeqsUpTo(LineChoices, MaxLines), stripped : BOOLEAN]
    /\ fileBytes = Render(written.lines, written.stripped)
    /\ ret = NoCall
    /\ SampleIdle
    /\ RunIdle
    /\ ConfigIdle

CallCountLines ==
    /\ ret' = [fn |-> "count_lines", raised |-> FALSE,
               value |-> count_lines_in_file(fileBytes, fileAccess)]
    /\ UNCHANGED <<fileVars, sampleVars, runVars, configVars>>

CallIsText ==
    /\ ret' = [fn |-> "is_text", raised |-> FALSE,
               value |-> is_text_file(fileName, fileBytes, fileAccess)]
    /\ UNCHANGED <<fileVars, sampleVars, runVars, configVars>>

CallGetFileInfo ==
    /\ LET r == get_file_info(fileName, fileBytes, fileAccess)
       IN ret' = [fn |-> "get_file_info", raised |-> r.raised, value |-> r.value]
    /\ UNCHANGED <<fileVars, sampleVars, runVars, configVars>>

CallSafeRead(max) ==
    /\ LET r == safe_read_file(fileBytes, fileAccess, max)
       IN ret' = [fn |-> "safe_read_file", raised |-> r.raised, value |-> r.value,
                  max_size |-> max]
    /\ UNCHANGED <<fileVars, sampleVars, runVars, configVars>>

Next ==
    \/ CallCountLines
    \/ CallIsText
    \/ CallGetFileInfo
    \/ \E max \in {NoneValue} \cup {Some(n) : n \in 1..MaxReadSize} : CallSafeRead(max)

Spec == Init /\ [][Next]_vars

----------------------------------------------------------------------------
(* memory_efficient_file_sample *)

DOTS == "..."
TRUNC == "[content truncated]"

\* "...\n[content truncated]\n..." of the small-file branch
SmallMarker == <<DOTS, NL, TRUNC, NL, DOTS>>
\* '\n...\n[content truncated]\n...\n' of the line branch
LineMarker == <<NL, DOTS, NL, TRUNC, NL, DOTS, NL>>

\* the size of a backward read (4096 in the source, scaled)
chunk_size == 4

\* x // 2 and (-x) // 2 of Python, which rounds down
HalfDown(x) == x \div 2
HalfUp(x) == x - (x \div 2)

\* a variant that reads the whole file before cutting it
SmallFileSample_ReadAll(bytes, max) ==
    LET content == Decode(bytes)
    IN IF Len(content) <= max THEN content
       ELSE Slice(content, 1, HalfDown(max)) \o SmallMarker
              \o Slice(content, Len(content) - HalfUp(max) + 1, Len(content))

\* the branch for a file smaller than 2 * max_size
SmallFileSample(bytes, max) ==
    LET content == Slice(Decode(bytes), 1, max)
    IN IF Len(content) <= max THEN content
       ELSE Slice(content, 1, HalfDown(max)) \o SmallMarker
              \o Slice(content, Len(content) - HalfUp(max) + 1, Len(content))

\* the index of the first newline of text, 0 if there is none
RECURSIVE FirstNewline(_, _)
FirstNewline(text, i) ==
    IF i > Len(text) THEN 0
    ELSE IF text[i] = NL THEN i ELSE FirstNewline(text, i + 1)

RECURSIVE ReadLines(_, _)
\* up to n calls of f.readline(), stopping at the end of the file; each
\* line keeps its newline
ReadLines(text, n) ==
    IF n = 0 \/ text = <<>> THEN <<>>
    ELSE LET nl == FirstNewline(text, 1)
         IN IF nl = 0 THEN <<text>>
            ELSE <<Slice(text, 1, nl)>> \o ReadLines(Slice(text, nl + 1, Len(text)), n - 1)

RECURSIVE Split(_)
\* chunk.split('\n')
Split(text) ==
    LET nl == FirstNewline(text, 1)
    IN IF nl = 0 THEN <<text>>
       ELSE <<Slice(text, 1, nl - 1)>> \o Split(Slice(text, nl + 1, Len(text)))

RECURSIVE Reversed(_)
Reversed(s) == IF s = <<>> THEN <<>> ELSE Append(Reversed(Tail(s)), Head(s))

\* deque(maxlen=n).appendleft(x): a full deque drops its right end
AppendLeft(dq, x, n) ==
    IF n = 0 THEN <<>>
    ELSE IF Len(dq) >= n THEN <<x>> \o SubSeq(dq, 1, n - 1)
    ELSE <<x>> \o dq

RECURSIVE AddLines(_, _, _)
\* for line in reversed(lines): keep the non-empty ones, stop when full
AddLines(rev, dq, n) ==
    IF rev = <<>> THEN dq
    ELSE LET added == IF Head(rev) # <<>> THEN AppendLeft(dq, Head(rev), n) ELSE dq
         IN IF Len(added) >= n THEN added ELSE AddLines(Tail(rev), added, n)

RECURSIVE JoinNewline(_)
\* '\n'.join(lines)
JoinNewline(lines) ==
    IF lines = <<>> THEN <<>>
    ELSE IF Len(lines) = 1 THEN Head(lines)
    ELSE Head(lines) \o <<NL>> \o JoinNewline(Tail(lines))

\* a variant that does not look at the line count
MarkerWanted_NoCount(first, last, bytes, access) ==
    first # <<>> /\ last # <<>>

\* the marker goes between a non-empty head and a non-empty tail when the
\* file has more lines than the head holds
MarkerWanted(first, last, bytes, access) ==
    first # <<>> /\ last # <<>> /\ Len(first) < count_lines_in_file(bytes, access)

Combine(first, last, bytes, access) ==
    Concat(first)
      \o (IF MarkerWanted(first, last, bytes, access) THEN LineMarker ELSE <<>>)
      \o JoinNewline(last)

\* the except branch's placeholder
SampleError(e) == <<"[Error reading file: ", e, "]">>

\* the call up to the backward loop: an error, the empty file and the small
\* file return at once; otherwise the head is read and the scan begins
SampleStart(k, max) ==
    /\ pcSample = "idle"
    /\ sample_lines' = k
    /\ max_size' = max
    /\ line_count' = 0
    /\ last_lines' = <<>>
    /\ reads' = <<>>
    /\ IF StatRaises(fileAccess)
       THEN /\ pcSample' = "done"
            /\ sampleRet' = SampleError(ErrorOf(fileAccess))
            /\ UNCHANGED <<first_lines, position>>
       ELSE IF Len(fileBytes) = 0
       THEN /\ pcSample' = "done"
            /\ sampleRet' = <<>>
            /\ UNCHANGED <<first_lines, position>>
       ELSE IF OpenRaises(fileAccess) \/ ReadRaises(fileAccess)
       THEN /\ pcSample' = "done"
            /\ sampleRet' = SampleError(ErrorOf(fileAccess))
            /\ UNCHANGED <<first_lines, position>>
       ELSE IF Len(fileBytes) < max * 2
       THEN /\ pcSample' = "done"
            /\ sampleRet' = SmallFileSample(fileBytes, max)
            /\ UNCHANGED <<first_lines, position>>
       ELSE IF ReopenRaises(fileAccess) \/ SeekRaises(fileAccess)
                 \* open(path, 'rb') or f.seek(0, os.SEEK_END) raises
       THEN /\ pcSample' = "done"
            /\ first_lines' = ReadLines(Decode(fileBytes), k)
            /\ sampleRet' = SampleError(ErrorOf(fileAccess))
            /\ UNCHANGED position
       ELSE /\ pcSample' = "scan"
            /\ first_lines' = ReadLines(Decode(fileBytes), k)
            /\ position' = Len(fileBytes)
            /\ UNCHANGED sampleRet
    /\ UNCHANGED <<fileVars, primVars, runVars, configVars>>

\* a variant that reads up to two chunks at once
ReadSize_Double(pos) == Min(2 * chunk_size, pos)

\* read_size = min(chunk_size, position)
ReadSize(pos) == Min(chunk_size, pos)

\* one pass of the while loop: read the chunk before position
ScanChunk ==
    /\ pcSample = "scan"
    /\ position > 0 /\ line_count < sample_lines
    /\ LET read_size == ReadSize(position)
           chunk == Decode(SubSeq(fileBytes, position - read_size + 1, position))
           lines == Split(chunk)
       IN /\ position' = position - read_size
          /\ line_count' = line_count + Len(lines) - 1
          /\ last_lines' = AddLines(Reversed(lines), last_lines, sample_lines)
          /\ reads' = Append(reads, [offset |-> position - read_size, size |-> read_size])
    /\ UNCHANGED <<pcSample, sample_lines, max_size, first_lines, sampleRet>>
    /\ UNCHANGED <<fileVars, primVars, runVars, configVars>>

\* the loop is over: join head, marker and tail, and return
SampleReturn ==
    /\ pcSample = "scan"
    /\ ~(position > 0 /\ line_count < sample_lines)
    /\ pcSample' = "done"
    /\ sampleRet' = Combine(first_lines, last_lines, fileBytes, fileAccess)
    /\ UNCHANGED <<sample_lines, max_size, first_lines, last_lines, position,
                   line_count, reads>>
    /\ UNCHANGED <<fileVars, primVars, runVars, configVars>>

MaxSampleFileLines == 4
MaxSampleLines == 2
MaxSampleSize == 3

\* the lines of the files sampled
SampleLineChoices == {<<>>, <<"a">>, <<"a", "b">>, <<"b", BAD>>}

InitSample ==
    /\ fileName = "notes.txt"
    /\ fileAccess \in AccessModes
    /\ written \in [lines : SeqsUpTo(SampleLineChoices, MaxSampleFileLines),
                    stripped : BOOLEAN]
    /\ fileBytes = Render(written.lines, written.stripped)
    /\ ret = NoCall
    /\ SampleIdle
    /\ RunIdle
    /\ ConfigIdle

NextSample ==
    \/ \E k \in 1..MaxSampleLines, max \in 1..MaxSampleSize : SampleStart(k, max)
    \/ ScanChunk
    \/ SampleReturn

SpecSample == InitSample /\ [][NextSample]_vars

----------------------------------------------------------------------------
(* parallel_process *)

\* a variant without the cap
DefaultWorkers_Uncapped(cpus) == (IF cpus = NoneValue THEN 4 ELSE ValueOf(cpus)) + 4

\* min(32, (os.cpu_count() or 4) + 4)
DefaultWorkers(cpus) == Min(32, (IF cpus = NoneValue THEN 4 ELSE ValueOf(cpus)) + 4)

\* if max_workers is None: the default
ResolveWorkers(arg, cpus) ==
    IF arg = NoneValue THEN DefaultWorkers(cpus) ELSE ValueOf(arg)

\* the process_func of the tests: the square, or ValueError("Test error")
process_func(x, fails) == IF x \in fails THEN Raise("Test error") ELSE Return(x * x)

\* a variant of an executor that never starts a thread
MayStartThread_Never(n, max) == FALSE

\* ThreadPoolExecutor(max_workers=max_workers): a submit starts a thread
\* only below the maximum
MayStartThread(n, max) == n < max

\* a variant that submits the item again
Submitted_Twice(q, i) == Append(Append(q, i), i)

\* executor.submit(process_func, item): one work item per item
Submitted(q, i) == Append(q, i)

\* the text before the exception in the log line
ErrorPrefix(progress) ==
    IF progress THEN "Error processing item: " ELSE "Error in parallel processing: "

\* a variant without the except branch: the exception leaves the loop
HandleResult_NoExcept(res, lg, outcome, progress) ==
    IF outcome.raised
    THEN [results |-> res, raised |-> TRUE, log |-> lg]
    ELSE [results |-> Append(res, outcome.value), raised |-> FALSE, log |-> lg]

\* try: results.append(future.result()) / except Exception as e: logger.error(...)
HandleResult(res, lg, outcome, progress) ==
    IF outcome.raised
    THEN [results |-> res, raised |-> FALSE,
          log |-> Append(lg, <<ErrorPrefix(progress), outcome.value>>)]
    ELSE [results |-> Append(res, outcome.value), raised |-> FALSE, log |-> lg]

\* a variant that updates the progress in the try branch only
ProgressDue_OnSuccess(outcome) == ~outcome.raised

\* finally: update_progress(future), whatever the outcome
ProgressDue(outcome) == TRUE

Running == {i \in 1..Len(future) : future[i].state = "running"}
Finished == {i \in 1..Len(future) : future[i].state = "finished"}

NewFuture == [state |-> "new", outcome |-> Return(0)]

\* lines 231-250: the list is taken, the default worker count applied
RunBegin ==
    /\ pcRun = "begin"
    /\ max_workers' = ResolveWorkers(workers_arg, cpu_count)
    /\ future' = [i \in 1..Len(items_list) |-> NewFuture]
    /\ invoked' = [i \in 1..Len(items_list) |-> 0]
    /\ pcRun' = IF items_list = <<>> THEN "collect" ELSE "submit"
    /\ UNCHANGED <<items_list, failing, workers_arg, cpu_count, show_progress,
                   nsubmitted, queue, threads, idle, yielded, results, log,
                   completed, pbar, lock, runRaised>>
    /\ UNCHANGED <<fileVars, primVars, sampleVars, configVars>>

\* the main thread submits the next item; the executor starts a thread for
\* it unless a worker is idle or the maximum is reached
Submit ==
    /\ pcRun = "submit"
    /\ LET i == nsubmitted + 1
       IN /\ nsubmitted' = i
          /\ queue' = Submitted(queue, i)
          /\ future' = [future EXCEPT ![i].state = "queued"]
          /\ IF idle > 0
             THEN idle' = idle - 1 /\ UNCHANGED threads
             ELSE /\ threads' = IF MayStartThread(threads, max_workers)
                                THEN threads + 1 ELSE threads
                  /\ UNCHANGED idle
          /\ pcRun' = IF i = Len(items_list) THEN "collect" ELSE "submit"
    /\ UNCHANGED <<items_list, failing, workers_arg, cpu_count, max_workers,
                   show_progress, invoked, yielded, results, log, completed,
                   pbar, lock, runRaised>>
    /\ UNCHANGED <<fileVars, primVars, sampleVars, configVars>>

\* a worker thread that runs nothing takes the next work item and calls
\* process_func on its item
WorkerStart ==
    /\ queue # <<>>
    /\ Cardinality(Running) < threads
    /\ LET i == Head(queue)
       IN /\ future' = [future EXCEPT ![i].state = "running"]
          /\ invoked' = [invoked EXCEPT ![i] = @ + 1]
    /\ queue' = Tail(queue)
    /\ UNCHANGED <<items_list, failing, workers_arg, cpu_count, max_workers,
                   show_progress, pcRun, nsubmitted, threads, idle, yielded,
                   results, log, completed, pbar, lock, runRaised>>
    /\ UNCHANGED <<fileVars, primVars, sampleVars, configVars>>

\* process_func returns or raises; the worker stores the outcome in the future
WorkerFinish(i) ==
    /\ future[i].state = "running"
    /\ future' = [future EXCEPT ![i] =
                    [state |-> "finished",
                     outcome |-> process_func(items_list[i], failing)]]
    /\ idle' = idle + 1
    /\ UNCHANGED <<items_list, failing, workers_arg, cpu_count, max_workers,
                   show_progress, pcRun, nsubmitted, queue, threads, invoked,
                   yielded, results, log, completed, pbar, lock, runRaised>>
    /\ UNCHANGED <<fileVars, primVars, sampleVars, configVars>>

\* as_completed yields a finished future; its result is appended or its
\* exception logged
Collect(i) ==
    /\ pcRun = "collect"
    /\ i \in Finished \ yielded
    /\ yielded' = yielded \cup {i}
    /\ LET h == HandleResult(results, log, future[i].outcome, show_progress)
       IN /\ results' = h.results
          /\ log' = h.log
          /\ runRaised' = h.raised
          /\ pcRun' = IF h.raised THEN "done"
                      ELSE IF show_progress /\ ProgressDue(future[i].outcome) THEN "lock"
                      ELSE "collect"
    /\ UNCHANGED <<items_list, failing, workers_arg, cpu_count, max_workers,
                   show_progress, nsubmitted, queue, threads, idle, future,
                   invoked, completed, pbar, lock>>
    /\ UNCHANGED <<fileVars, primVars, sampleVars, configVars>>

\* update_progress: with lock
LockAcquire ==
    /\ pcRun = "lock"
    /\ lock = "free"
    /\ lock' = "main"
    /\ pcRun' = "update"
    /\ UNCHANGED <<items_list, failing, workers_arg, cpu_count, max_workers,
                   show_progress, nsubmitted, queue, threads, idle, future,
                   invoked, yielded, results, log, completed, pbar, runRaised>>
    /\ UNCHANGED <<fileVars, primVars, sampleVars, configVars>>

\* update_progress: completed += 1; pbar.update(1); the lock is released
UpdateProgress ==
    /\ pcRun = "update"
    /\ completed' = completed + 1
    /\ pbar' = pbar + 1
    /\ lock' = "free"
    /\ pcRun' = "collect"
    /\ UNCHANGED <<items_list, failing, workers_arg, cpu_count, max_workers,
                   show_progress, nsubmitted, queue, threads, idle, future,
                   invoked, yielded, results, log, runRaised>>
    /\ UNCHANGED <<fileVars, primVars, sampleVars, configVars>>

\* every future was yielded: the with block waits for the workers, and the
\* results are returned
RunReturn ==
    /\ pcRun = "collect"
    /\ yielded = 1..Len(items_list)
    /\ queue = <<>> /\ Running = {}
    /\ pcRun' = "done"
    /\ UNCHANGED <<items_list, failing, workers_arg, cpu_count, max_workers,
                   show_progress, nsubmitted, queue, threads, idle, future,
                   invoked, yielded, results, log, completed, pbar, lock, runRaised>>
    /\ UNCHANGED <<fileVars, primVars, sampleVars, configVars>>

MaxItems == 3
MaxWorkersArg == 2

\* the item values, and the values os.cpu_count() takes in the model
ItemValues == {1, 2, 3}
CpuCounts == {NoneValue, Some(64)}

InitRun ==
    /\ fileName = "notes.txt"
    /\ fileAccess = "missing"
    /\ written = [lines |-> <<>>, stripped |-> FALSE]
    /\ fileBytes = <<>>
    /\ ret = NoCall
    /\ SampleIdle
    /\ ConfigIdle
    /\ items_list \in SeqsUpTo(ItemValues, MaxItems)
    /\ failing \in SUBSET ItemValues
    /\ workers_arg \in {NoneValue} \cup {Some(n) : n \in 1..MaxWorkersArg}
    /\ cpu_count \in CpuCounts
    \* os.cpu_count() is read only when max_workers is None
    /\ workers_arg # NoneValue => cpu_count = NoneValue
    /\ show_progress \in BOOLEAN
    /\ max_workers = 0
    /\ pcRun = "begin"
    /\ nsubmitted = 0
    /\ queue = <<>>
    /\ threads = 0
    /\ idle = 0
    /\ future = <<>>
    /\ invoked = <<>>
    /\ yielded = {}
    /\ results = <<>>
    /\ log = <<>>
    /\ completed = 0
    /\ pbar = 0
    /\ lock = "free"
    /\ runRaised = FALSE

NextRun ==
    \/ RunBegin
    \/ Submit
    \/ WorkerStart
    \/ \E i \in 1..Len(future) : WorkerFinish(i)
    \/ \E i \in 1..Len(future) : Collect(i)
    \/ LockAcquire
    \/ UpdateProgress
    \/ RunReturn

SpecRun == InitRun /\ [][NextRun]_vars

\* the steps of the thread that called parallel_process
MainThread ==
    \/ RunBegin
    \/ Submit
    \/ \E i \in 1..Len(future) : Collect(i)
    \/ LockAcquire
    \/ UpdateProgress
    \/ RunReturn

\* the calling thread and the worker threads keep running, and every call
\* of process_func comes to an end, returning or raising
SpecRunFair ==
    /\ SpecRun
    /\ WF_vars(MainThread)
    /\ WF_vars(WorkerStart)
    /\ \A i \in 1..MaxItems : WF_vars(i \in 1..Len(future) /\ WorkerFinish(i))

----------------------------------------------------------------------------
(* CartographerConfig: __post_init__, to_dict, save, from_dict, load.      *)
(* A Python value carries its type, so that Path('x') and 'x', or a set    *)
(* and a list, are different values.                                       *)

PyNone == [type |-> "None"]
PyStr(s) == [type |-> "str", s |-> s]
PyPath(s) == [type |-> "Path", s |-> s]
PyInt(n) == [type |-> "int", n |-> n]
PySet(S) == [type |-> "set", members |-> S]
PyList(l) == [type |-> "list", items |-> l]

\* the process's working directory
Cwd == "/cwd"

\* Path(s) drops a leading "./"
Normalize(s) == IF s = "./test" THEN "test" ELSE s

\* Path(s)
Path(s) == PyPath(Normalize(s))

\* Path.resolve(): an absolute path stays, a relative one is put under the
\* working directory
Resolve(s) ==
    CASE s = "."    -> Cwd
      [] s = "test" -> "/cwd/test"
      [] OTHER      -> s

\* bool(value) of a set, a list or None
Truthy(v) ==
    \/ v.type = "set" /\ v.members # {}
    \/ v.type = "list" /\ v.items # <<>>

\* the elements of a set or a list
Elements(v) ==
    IF v.type = "set" THEN v.members ELSE {v.items[i] : i \in 1..Len(v.items)}

\* ext if ext.startswith('.') else f'.{ext}'
WithDot(ext) ==
    CASE ext = "py" -> ".py"
      [] ext = "js" -> ".js"
      [] OTHER      -> ext

\* the extensions after normalisation
Extensions == {".py", ".js"}

ANALYSIS_MODES == {"overview", "components", "architecture", "flows"}

\* the fields the model keeps: the three paths, the set, the optional
\* number, and a list, a number and a string that stand for the fields
\* stored as they are
ConfigFields ==
    {"directory", "output_path", "cache_dir", "filter_extensions", "max_workers",
     "exclude_patterns", "max_files", "mode"}

\* __post_init__: the object, or ValueError
post_init(args, cpus) ==
    IF args.mode.s \notin ANALYSIS_MODES THEN Raise("ValueError")
    ELSE Return(
      [args EXCEPT
         !.directory = IF @.type = "str" THEN PyPath(Resolve(Normalize(@.s))) ELSE @,
         !.output_path = IF @.type = "str" THEN Path(@.s) ELSE @,
         !.cache_dir = IF @.type = "str" THEN Path(@.s) ELSE @,
         !.max_workers = IF @ = PyNone THEN PyInt(DefaultWorkers(cpus)) ELSE @,
         !.filter_extensions =
            IF Truthy(@) THEN PySet({WithDot(ext) : ext \in Elements(@)}) ELSE @])

\* list(S): the members in some order
Orderings(S) ==
    {l \in [1..Cardinality(S) -> S] : \A i, j \in 1..Cardinality(S) : l[i] = l[j] => i = j}

\* to_dict on one value; listing is what list(value) gives for a set
ToDictValue(v, listing) ==
    CASE v.type = "Path" -> PyStr(v.s)
      [] v.type = "set"  -> IF v.members # {} THEN PyList(listing) ELSE PyNone
      [] OTHER           -> v

to_dict(c, listing) == [f \in DOMAIN c |-> ToDictValue(c[f], listing)]

\* config_path.suffix.lower() in ['.yaml', '.yml']
ConfigPaths == {"config.json", "config.yaml", "config.YML", "config.txt"}
IsYaml(path) == path \in {"config.yaml", "config.YML"}

\* json.dump / yaml.dump of one value: the document holds strings, numbers,
\* nulls and arrays; a Path or a set has no plain form
DumpValue(v) ==
    CASE v.type = "str"  -> [node |-> "string", text |-> v.s]
      [] v.type = "int"  -> [node |-> "number", num |-> v.n]
      [] v.type = "None" -> [node |-> "null"]
      [] v.type = "list" -> [node |-> "array", elements |-> v.items]
      [] OTHER           -> [node |-> "python object"]

\* json.load / yaml.safe_load of one node
LoadValue(node) ==
    CASE node.node = "string" -> PyStr(node.text)
      [] node.node = "number" -> PyInt(node.num)
      [] node.node = "null"   -> PyNone
      [] node.node = "array"  -> PyList(node.elements)

Plain(body) == \A f \in DOMAIN body : body[f].node # "python object"

\* a variant that leaves the strings of the path fields as they are
RestorePath_Kept(v) == v

\* config[key] = Path(config[key]) if it is not None
RestorePath(v) == IF v = PyNone THEN v ELSE Path(v.s)

\* from_dict up to the constructor call
from_dict(d) ==
    [d EXCEPT
       !.directory = RestorePath(@),
       !.output_path = RestorePath(@),
       !.cache_dir = RestorePath(@),
       !.filter_extensions = IF Truthy(@) THEN PySet(Elements(@)) ELSE @]

\* the values a caller passes to the constructor
PathArgs == {PyPath("."), PyStr("./test"), Path("./test"), PyPath("/srv/out")}
ExtensionArgs == {"py", ".py", ".js"}
ConfigArgs ==
    [directory : PathArgs,
     output_path : {PyNone, PyStr("./test"), PyPath("/srv/out")},
     cache_dir : {PyPath("/srv/cache"), PyStr("/srv/cache")},
     filter_extensions : {PyNone} \cup {PySet(S) : S \in SUBSET ExtensionArgs},
     max_workers : {PyNone, PyInt(2)},
     exclude_patterns : {PyList(<<"node_modules", ".git">>), PyList(<<>>)},
     max_files : {PyInt(200)},
     mode : {PyStr("overview"), PyStr("everything")}]

InitConfig ==
    /\ fileName = "notes.txt"
    /\ fileAccess = "missing"
    /\ written = [lines |-> <<>>, stripped |-> FALSE]
    /\ fileBytes = <<>>
    /\ ret = NoCall
    /\ SampleIdle
    /\ RunIdle
    /\ ConfigIdle

\* CartographerConfig(**args)
Construct(args, cpus) ==
    /\ pcConfig = "idle"
    /\ LET r == post_init(args, cpus)
       IN IF r.raised
          THEN pcConfig' = "invalid" /\ UNCHANGED config
          ELSE pcConfig' = "built" /\ config' = r.value
    /\ UNCHANGED <<config_file, loaded_config>>
    /\ UNCHANGED <<fileVars, primVars, sampleVars, runVars>>

\* config.save(path): a document that cannot be written raises
Save(path, listing) ==
    /\ pcConfig = "built"
    /\ listing \in Orderings(IF config.filter_extensions.type = "set"
                             THEN config.filter_extensions.members ELSE {})
    /\ LET body == [f \in ConfigFields |-> DumpValue(to_dict(config, listing)[f])]
       IN IF Plain(body) \/ IsYaml(path)
          THEN pcConfig' = "saved" /\ config_file' = [path |-> path, body |-> body]
          ELSE pcConfig' = "save raised" /\ UNCHANGED config_file
    /\ UNCHANGED <<config, loaded_config>>
    /\ UNCHANGED <<fileVars, primVars, sampleVars, runVars>>

\* CartographerConfig.load(path) of the file saved
Load(cpus) ==
    /\ pcConfig = "saved"
    /\ IF ~Plain(config_file.body)
       THEN pcConfig' = "load raised" /\ UNCHANGED loaded_config
       ELSE LET config_dict == [f \in ConfigFields |-> LoadValue(config_file.body[f])]
                r == post_init(from_dict(config_dict), cpus)
            IN IF r.raised
               THEN pcConfig' = "load raised" /\ UNCHANGED loaded_config
               ELSE pcConfig' = "loaded" /\ loaded_config' = r.value
    /\ UNCHANGED <<config, config_file>>
    /\ UNCHANGED <<fileVars, primVars, sampleVars, runVars>>

NextConfig ==
    \/ \E args \in ConfigArgs, cpus \in CpuCounts : Construct(args, cpus)
    \/ \E path \in ConfigPaths, listing \in UNION {Orderings(S) : S \in SUBSET Extensions} :
         Save(path, listing)
    \/ \E cpus \in CpuCounts : Load(cpus)

SpecConfig == InitConfig /\ [][NextConfig]_vars

----------------------------------------------------------------------------
(* Properties of the file primitives *)

LastLine(lines) == lines[Len(lines)]

\* C2 as stated: count_lines returns N for N newline-terminated lines
\* (lines may be empty), and still N when the final newline is stripped.
C2_CountEqualsLinesWritten ==
    (ret.fn = "count_lines" /\ fileAccess = "ok")
        => ret.value = Len(written.lines)

\* C2, amended: count_lines returns N for N newline-terminated lines; with
\* the final newline stripped it returns N when the last line is not empty
\* and N - 1 when the last line is empty.
C2_CountOfLinesWritten ==
    (ret.fn = "count_lines" /\ fileAccess = "ok")
        => ret.value =
             IF written.stripped /\ written.lines # <<>> /\ LastLine(written.lines) = <<>>
             THEN Len(written.lines) - 1
             ELSE Len(written.lines)

C2_Witness ==
    /\ ret.fn = "count_lines" /\ fileAccess = "ok"
    /\ written.stripped /\ Len(written.lines) >= 2
    /\ LastLine(written.lines) # <<>>
    /\ ret.value = Len(written.lines)

HasNullInSniffedPrefix == \E i \in 1..Min(SniffLen, Len(fileBytes)) : fileBytes[i] = NUL

\* the name alone classifies the file as text: a text MIME type, or no MIME
\* type and a known text suffix
NameSaysText ==
    \/ guess_type(fileName) = "text/plain"
    \/ guess_type(fileName) \in text_mime_types
    \/ guess_type(fileName) = NoMime /\ lower(suffix(fileName)) \in text_extensions

\* C3 as stated: is_text returns false for every file whose first 4096
\* bytes hold a null byte, whatever its name.
C3_NullByteAlwaysBinary ==
    (ret.fn = "is_text" /\ fileAccess = "ok" /\ HasNullInSniffedPrefix)
        => ret.value = FALSE

\* C3, amended: is_text returns false for every file whose first 4096 bytes
\* hold a null byte, unless the MIME lookup or the extension table has
\* classified the name as text before the content is read.
C3_NullByteBinaryUnlessNameSaysText ==
    (ret.fn = "is_text" /\ fileAccess = "ok" /\ HasNullInSniffedPrefix /\ ~NameSaysText)
        => ret.value = FALSE

C3_Witness ==
    /\ ret.fn = "is_text" /\ fileAccess = "ok" /\ fileName = "LICENSE"
    /\ HasNullInSniffedPrefix
    /\ DecodesAsUtf8(Slice(fileBytes, 1, SniffLen))
    /\ ret.value = FALSE

\* C9: a record of get_file_info has line_count if and only if it has
\* is_text = true; a record with is_text = false and an error record have none.
C9_LineCountIffText ==
    ret.fn = "get_file_info"
        => (("line_count" \in DOMAIN ret.value)
              <=> ("is_text" \in DOMAIN ret.value /\ ret.value.is_text))

C9_Witness ==
    /\ ret.fn = "get_file_info"
    /\ "line_count" \in DOMAIN ret.value
    /\ ret.value.is_text
    /\ ret.value.line_count = 2

MinimalFields == {"path", "error"}
FullFields == {"path", "name", "extension", "size_bytes", "is_text", "last_modified"}

\* the classifier reads the content only when the name decides nothing
SniffReached == guess_type(fileName) = NoMime /\ lower(suffix(fileName)) \notin text_extensions

\* a step of get_file_info meets an I/O error: stat, or an open of an
\* unreadable file by the content sniff or by the line count
SomeStepFails ==
    \/ StatRaises(fileAccess)
    \/ (OpenRaises(fileAccess) \/ ReadRaises(fileAccess)) /\ (SniffReached \/ NameSaysText)
    \/ SeekRaises(fileAccess) /\ NameSaysText /\ fileBytes # <<>>

CountLinesStepFails ==
    \/ OpenRaises(fileAccess) \/ ReadRaises(fileAccess) \/ StatRaises(fileAccess)
    \/ SeekRaises(fileAccess) /\ fileBytes # <<>>

\* C11: an I/O failure at any step (stat, open, seek, read) is never raised
\* and gives the safe default: count_lines returns 0, and is_text returns
\* false when the failure occurs during the content sniff.
C11_FailureGivesSafeDefault ==
    /\ (ret.fn = "count_lines" /\ CountLinesStepFails)
          => (~ret.raised /\ ret.value = 0)
    /\ (ret.fn = "is_text" /\ SniffReached
          /\ (OpenRaises(fileAccess) \/ ReadRaises(fileAccess)))
          => (~ret.raised /\ ret.value = FALSE)

\* a step of the last call of safe_read_file failed: the stat when max_size
\* is given, the open, the read, or the second open after a decode error
SafeReadStepFails ==
    \/ ret.max_size # NoneValue /\ StatRaises(fileAccess)
    \/ OpenRaises(fileAccess)
    \/ ReadRaises(fileAccess)
    \/ /\ ReopenRaises(fileAccess)
       /\ ~DecodesAsUtf8(fileBytes)
       /\ (ret.max_size = NoneValue \/ Len(fileBytes) <= ValueOf(ret.max_size))

\* C12: safe_read_file never raises; whenever stat-ing, opening or reading
\* the file fails, the lossy re-read included, with max_size given or not,
\* the result is the diagnostic string "[Error reading file: ...]".
C12_SafeReadNeverRaises ==
    ret.fn = "safe_read_file" =>
        /\ ~ret.raised
        /\ SafeReadStepFails => ret.value = ReadErrorText(ErrorOf(fileAccess))

\* s is a prefix of t
IsPrefix(s, t) == Len(s) <= Len(t) /\ s = SubSeq(t, 1, Len(s))

MimeSaysText ==
    StartsWithText(guess_type(fileName)) \/ guess_type(fileName) \in text_mime_types

KnownTextSuffix == lower(suffix(fileName)) \in text_extensions

\* what the content sniff finds in the file
SniffSaysText ==
    /\ ~OpenRaises(fileAccess) /\ ~ReadRaises(fileAccess)
    /\ ~HasNullInSniffedPrefix
    /\ \A i \in 1..Min(SniffLen, Len(fileBytes)) : fileBytes[i] # BAD

\* the first decisive signal in the order MIME lookup, extension table,
\* content sniff
FirstDecisiveSignal ==
    /\ guess_type(fileName) # NoMime => ret.value = MimeSaysText
    /\ (guess_type(fileName) = NoMime /\ KnownTextSuffix) => ret.value = TRUE
    /\ (guess_type(fileName) = NoMime /\ ~KnownTextSuffix) => ret.value = SniffSaysText

\* C16 as stated: is_text decides by the first decisive signal in the
\* order MIME lookup, extension table, content sniff, and in particular
\* every file whose suffix is a known text extension is classified as text.
C16_KnownSuffixAlwaysText ==
    ret.fn = "is_text" =>
        /\ FirstDecisiveSignal
        /\ KnownTextSuffix => ret.value = TRUE

\* C16, amended: is_text decides by the first decisive signal in the order
\* MIME lookup, extension table, content sniff; a file whose suffix is a
\* known text extension is classified as text exactly when no MIME type is
\* found for its name or the type found is text/* or on the allow-list.
C16_KnownSuffixTextUnlessMimeSaysNot ==
    ret.fn = "is_text" =>
        /\ FirstDecisiveSignal
        /\ KnownTextSuffix =>
              (ret.value = TRUE <=> (guess_type(fileName) = NoMime \/ MimeSaysText))

\* a name with a known text suffix, .sql, whose MIME type is not a text
\* type: classified as not text
C16_Witness ==
    /\ ret.fn = "is_text"
    /\ KnownTextSuffix
    /\ guess_type(fileName) # NoMime
    /\ ~MimeSaysText
    /\ ret.value = FALSE

----------------------------------------------------------------------------
(* Properties of the sampler *)

\* sub occurs in s as a contiguous run
Contains(s, sub) ==
    \E i \in 0..(Len(s) - Len(sub)) : SubSeq(s, i + 1, i + Len(sub)) = sub

\* the file on disk holds exactly the lines written (stripping the final
\* newline after an empty last line would remove that line)
HoldsLinesWritten ==
    ~(written.stripped /\ written.lines # <<>> /\ LastLine(written.lines) = <<>>)

\* C1: for a file of more than 2k lines and every max_chars, the sample
\* holds each of the first k and each of the last k lines and holds the
\* truncation marker exactly once.
C1_HeadTailAndOneMarker ==
    (/\ pcSample = "done" /\ fileAccess = "ok"
     /\ HoldsLinesWritten
     /\ Len(written.lines) > 2 * sample_lines)
        => /\ \A i \in 1..sample_lines :
                Contains(sampleRet, Decode(written.lines[i]))
           /\ \A i \in (Len(written.lines) - sample_lines + 1)..Len(written.lines) :
                Contains(sampleRet, Decode(written.lines[i]))
           /\ Count(sampleRet, TRUNC) = 1

\* the last call took the small-file path and no step of it failed
SmallPathDone ==
    /\ pcSample = "done"
    /\ ~StatRaises(fileAccess) /\ ~OpenRaises(fileAccess) /\ ~ReadRaises(fileAccess)
    /\ 0 < Len(fileBytes) /\ Len(fileBytes) < 2 * max_size

\* the last call took the large-file path and no step of it failed
LargePathDone ==
    /\ pcSample = "done"
    /\ fileAccess = "ok"
    /\ 0 < Len(fileBytes) /\ Len(fileBytes) >= 2 * max_size

C14_SmallPathTruncationHasMarker ==
    (SmallPathDone /\ sampleRet # Decode(fileBytes)) =>
        LET content == Decode(fileBytes)
        IN /\ Count(sampleRet, TRUNC) = 1
           /\ \E h, t \in {HalfDown(max_size), HalfUp(max_size)} :
                 sampleRet = Slice(content, 1, h) \o SmallMarker
                               \o Slice(content, Len(content) - t + 1, Len(content))

\* the non-empty lines of a text, in order
NonEmptyLines(text) == SelectSeq(Split(text), LAMBDA line : line # <<>>)

\* s is the end of t
IsSuffix(s, t) ==
    Len(s) <= Len(t) /\ s = SubSeq(t, Len(t) - Len(s) + 1, Len(t))

\* C15: on the large-file path a fragment of a line cut by a chunk boundary
\* is never placed in the tail as a line of its own: every element of the
\* tail is a complete line of the file, and the tail elements are the
\* file's last (non-empty) lines in file order.
C15_TailHoldsCompleteLines ==
    LargePathDone =>
        /\ \A i \in 1..Len(last_lines) :
              \E j \in 1..Len(Split(Decode(fileBytes))) :
                 last_lines[i] = Split(Decode(fileBytes))[j]
        /\ IsSuffix(last_lines, NonEmptyLines(Decode(fileBytes)))

\* the number of lines of the file on disk
FileLineCount ==
    IF HoldsLinesWritten THEN Len(written.lines) ELSE Len(written.lines) - 1

\* C19: on the large-file path the output is the head lines, then at most
\* one truncation marker, then the tail lines joined by newlines; the marker
\* is there if and only if head and tail are both non-empty and the file has
\* more lines than the head holds.
C19_HeadMarkerTail ==
    LargePathDone =>
        LET head == Concat(first_lines)
            tail == JoinNewline(last_lines)
            marked == first_lines # <<>> /\ last_lines # <<>>
                        /\ FileLineCount > Len(first_lines)
        IN /\ marked => sampleRet = head \o LineMarker \o tail
           /\ ~marked => sampleRet = head \o tail

\* head and tail are both non-empty and no marker is inserted, the head
\* holding every line of the file
C19_Witness ==
    /\ LargePathDone
    /\ first_lines # <<>> /\ last_lines # <<>>
    /\ Len(first_lines) = FileLineCount
    /\ sampleRet = Concat(first_lines) \o JoinNewline(last_lines)

\* C20: on the large-file path the backward scan never stops with fewer
\* than sample_line_count lines in the tail while unread bytes remain before
\* the current position.
C20_ScanFillsTailOrReachesStart ==
    LargePathDone => (Len(last_lines) >= sample_lines \/ position = 0)

\* the final non-empty line of the file
FinalNonEmptyLine ==
    LET lines == NonEmptyLines(Decode(fileBytes)) IN lines[Len(lines)]

\* C21: in the backward scan the tail never holds more than
\* sample_line_count entries, an entry once placed in it is never evicted by
\* a later chunk, and the last entry of the tail in the output is text taken
\* from the final non-empty line of the file.
C21_TailBoundedAndNeverEvicted ==
    /\ [](pcSample # "idle" => Len(last_lines) <= sample_lines)
    /\ [][pcSample = "scan" => IsSuffix(last_lines, last_lines')]_vars
    /\ []((LargePathDone /\ last_lines # <<>>)
             => IsSuffix(last_lines[Len(last_lines)], FinalNonEmptyLine))

\* the least number of chunks that cover n bytes
CeilDiv(n, d) == (n + d - 1) \div d

\* where the read before read i ended: the end of the file for the first
ReadsEnd(i) == IF i = 1 THEN Len(fileBytes) ELSE reads[i - 1].offset

\* C22: the backward scan always terminates: every pass of the loop reads
\* between 1 and chunk_size bytes and moves the position down by that many,
\* never below 0; each read ends where the one before began, so no byte is
\* read twice; the loop runs at most ceil(size / chunk_size) times, and
\* when it stops the call returns.
C22_ScanTerminates ==
    /\ [](/\ \A i \in 1..Len(reads) :
               /\ reads[i].size >= 1 /\ reads[i].size <= chunk_size
               /\ reads[i].offset >= 0
               /\ reads[i].offset + reads[i].size = ReadsEnd(i)
          /\ pcSample = "scan" => position = ReadsEnd(Len(reads) + 1)
          /\ Len(reads) <= CeilDiv(Len(fileBytes), chunk_size))
    /\ [][pcSample = "scan" =>
            \/ /\ pcSample' = "scan"
               /\ position' < position /\ position' >= 0
               /\ Len(reads') = Len(reads) + 1
            \/ pcSample' = "done"]_vars

\* a scan that went back to the start of the file in two reads, the second
\* of them shorter than a chunk
C22_Witness ==
    /\ pcSample = "done"
    /\ Len(reads) = 2
    /\ position = 0
    /\ reads[2].size < chunk_size

----------------------------------------------------------------------------
(* Properties of CartographerConfig *)

\* C18 as stated: saving a valid config to a JSON or YAML file and loading
\* that file yields a config whose fields all equal the saved config's
\* fields, filter_extensions being None, empty or non-empty.
C18_LoadedEqualsSaved ==
    pcConfig = "loaded" => loaded_config = config

\* C18, amended: saving a valid config and loading the file yields a
\* config whose fields all equal the saved config's fields, except that an
\* empty filter_extensions is loaded as None.
C18_LoadedEqualsSavedButEmptySet ==
    pcConfig = "loaded" =>
        \A f \in ConfigFields :
            loaded_config[f] =
                IF f = "filter_extensions" /\ config[f] = PySet({}) THEN PyNone
                ELSE config[f]

\* a config with an empty filter_extensions and a relative directory was
\* saved and loaded: the set came back as None, the paths as they were
C18_Witness ==
    /\ pcConfig = "loaded"
    /\ config.filter_extensions = PySet({})
    /\ loaded_config.filter_extensions = PyNone
    /\ config.directory = PyPath(".")
    /\ loaded_config.directory = PyPath(".")
    /\ loaded_config.output_path = config.output_path

----------------------------------------------------------------------------
(* Properties of parallel_process *)

Indices == 1..Len(items_list)
FailingIndices == {i \in Indices : items_list[i] \in failing}
SucceedingIndices == Indices \ FailingIndices

\* C4: run returns without raising; the list returned, as a multiset, is
\* the multiset of op(x) over the items on which op does not fail; exactly
\* one failure is logged per failing item.
C4_ResultsAreTheSuccesses ==
    pcRun = "done"
        => /\ ~runRaised
           /\ Len(results) = Cardinality(SucceedingIndices)
           /\ \A x \in ItemValues :
                Count(results, x * x)
                  = Cardinality({i \in SucceedingIndices : items_list[i] = x})
           /\ Len(log) = Cardinality(FailingIndices)

C4_Witness ==
    /\ pcRun = "done"
    /\ Len(items_list) = 3
    /\ Cardinality(FailingIndices) = 1
    /\ Len(results) = 2 /\ Len(log) = 1
    /\ results[1] # results[2]

\* C5: op is invoked exactly once for every item of the input, by position:
\* never twice, and once when run has returned.
C5_InvokedExactlyOnce ==
    /\ \A i \in 1..Len(invoked) : invoked[i] <= 1
    /\ pcRun = "done" => \A i \in Indices : invoked[i] = 1

C5_Witness ==
    /\ pcRun = "done"
    /\ Len(items_list) = 3
    /\ items_list[1] = items_list[3]
    /\ items_list[1] \in failing
    /\ \A i \in Indices : invoked[i] = 1

\* C6: with progress reporting the counter goes up by one per completed
\* item, failed or not, and only while the lock is held; it never exceeds
\* the number of items and equals it when run returns.
C6_ProgressCountsEveryItem ==
    /\ [](show_progress =>
            /\ completed <= Len(items_list)
            /\ pcRun = "collect" => completed = Cardinality(yielded)
            /\ pcRun = "done" => completed = Len(items_list))
    /\ [][completed' # completed => (lock = "main" /\ completed' = completed + 1)]_vars

C6_Witness ==
    /\ pcRun = "done" /\ show_progress
    /\ Len(items_list) = 3
    /\ Cardinality(FailingIndices) = 2
    /\ completed = 3

\* C7: the number of items whose op is executing is at most worker_count;
\* the default worker_count is min(32, cpu_count + 4), at most 32.
C7_AtMostWorkerCountRunning ==
    pcRun \notin {"idle", "begin"}
        => /\ Cardinality(Running) <= max_workers
           /\ workers_arg # NoneValue => max_workers = ValueOf(workers_arg)
           /\ workers_arg = NoneValue
                => /\ max_workers <= 32
                   /\ cpu_count # NoneValue
                        => max_workers = (IF ValueOf(cpu_count) + 4 < 32
                                          THEN ValueOf(cpu_count) + 4 ELSE 32)

C7_Witness ==
    /\ workers_arg = Some(2)
    /\ Cardinality(Running) = 2
    /\ queue # <<>>

\* the log line names the item: the item's identity is part of its text
NamesItem(entry, x) == \E k \in 1..Len(entry) : entry[k] = ToString(x)

\* C8: every failure is logged with the identity of the item that caused
\* it, in both modes.
C8_LogNamesTheFailedItem ==
    pcRun = "done"
        => \A i \in FailingIndices : \E j \in 1..Len(log) : NamesItem(log[j], items_list[i])

\* the indices whose call of process_func raised, and those that returned
RaisedIndices == {i \in 1..Len(future) : future[i].state = "finished" /\ future[i].outcome.raised}
ReturnedIndices == {i \in 1..Len(future) : future[i].state = "finished" /\ ~future[i].outcome.raised}

\* C23: if every call of op terminates, run eventually returns, whatever
\* the worker count and the number of items; when it has returned no item
\* is pending or executing, and every item is recorded as exactly one of a
\* success (in the result list) or a failure (logged).
C23_RunEventuallyReturns ==
    /\ <>(pcRun = "done")
    /\ [](pcRun = "done" =>
            /\ ~runRaised
            /\ queue = <<>> /\ Running = {}
            /\ nsubmitted = Len(items_list)
            /\ RaisedIndices \cup ReturnedIndices = Indices
            /\ Len(results) = Cardinality(ReturnedIndices)
            /\ Len(log) = Cardinality(RaisedIndices)
            /\ Len(results) + Len(log) = Len(items_list))

\* a run of three items on one worker, one of them failing, has returned
C23_Witness ==
    /\ pcRun = "done"
    /\ workers_arg = Some(1) /\ threads = 1
    /\ Len(items_list) = 3
    /\ Cardinality(RaisedIndices) = 1
    /\ Len(results) = 2 /\ Len(log) = 1

====
